---- MODULE Spec2Model ----
(***************************************************************************)
(* The AI features router of the B2B marketplace API (app/routers/ai.py):  *)
(* the three read-only handlers ai_price_suggestion, market_analysis and   *)
(* get_categories, over a data store holding the Product and RFQ tables.   *)
(*                                                                         *)
(* Time is counted in whole days.  Prices are whole currency units; the    *)
(* prices a report carries are in hundredths, as round(float(x), 2) gives  *)
(* them.  A nullable value is a sequence: <<>> is NULL / None / a missing  *)
(* query parameter, <<v>> is the value v.  An average is the exact         *)
(* fraction <<sum, count>>.                                                *)
(***************************************************************************)
EXTENDS Integers, Sequences, FiniteSets, Bags, TLC

VARIABLES
    products,   \* the Product table: a bag of rows
    rfqs,       \* the RFQ table: a bag of rows
    now,        \* datetime.utcnow(), in days
    response,   \* the outcome of the latest request to the router
    report      \* the latest report market_analysis returned

vars == <<products, rfqs, now, response, report>>

----------------------------------------------------------------------------
(* Bounds of the model *)

MaxProducts == 3      \* rows of a general Product table
MaxPricedRows == 2    \* rows of a priced Product table
MaxPrice == 5         \* largest listing price
MaxRfqRows == 16      \* RFQ rows per (category, day) in the demand data sets
MaxSupplyRows == 12   \* suppliers in the supply data sets
MaxTicks == 1         \* days the clock advances
MaxQuantity == 1      \* largest quantity requested

(* Constants of the program *)

WindowDays == 30
DemandHigh == 30
DemandMedium == 10
CompetitionHigh == 10
CompetitionMedium == 3
StabilityNum == 1     \* the stability threshold 0.5 is StabilityNum / StabilityDen
StabilityDen == 2
MinQuantity == 1
DefaultQuantity == 1
Decimals == 100       \* round(x, 2) keeps hundredths

----------------------------------------------------------------------------
(* Nullable values *)

NULL == <<>>
Some(x) == <<x>>
Get(o) == o[1]

(* Tables *)

ProductCategories == {"a", "b"}
RequestCategories == ProductCategories \cup {""}

\* RFQs are created from day 0 on, the day the first window starts
LastDay == MaxTicks

RECURSIVE TablesOf(_, _)
TablesOf(rows, n) ==
    IF n = 0 THEN {EmptyBag}
    ELSE LET smaller == TablesOf(rows, n - 1)
         IN  smaller \cup {t (+) SetToBag({r}) : t \in smaller, r \in rows}

\* SQL WHERE: the rows of a table that a predicate keeps, with their multiplicity
Where(table, kept) == [r \in kept |-> table[r]]

\* SQL count(id)
Count(table) == BagCardinality(table)

RECURSIVE SumPrice(_)
SumPrice(table) ==
    IF DOMAIN table = {} THEN 0
    ELSE LET r == CHOOSE x \in DOMAIN table : TRUE
         IN  r.price * table[r]
               + SumPrice([x \in DOMAIN table \ {r} |-> table[x]])

\* SQL avg(price), min(price), max(price): NULL over no rows
AvgPrice(table) ==
    IF DOMAIN table = {} THEN NULL
    ELSE Some(<<SumPrice(table), Count(table)>>)

MinPrice(table) ==
    IF DOMAIN table = {} THEN NULL
    ELSE Some(<<CHOOSE p \in {r.price : r \in DOMAIN table} :
                    \A r \in DOMAIN table : p <= r.price, 1>>)

MaxPriceOf(table) ==
    IF DOMAIN table = {} THEN NULL
    ELSE Some(<<CHOOSE p \in {r.price : r \in DOMAIN table} :
                    \A r \in DOMAIN table : p >= r.price, 1>>)

----------------------------------------------------------------------------
(* The three queries of market_analysis *)

\* the product statistics without the price filter
MatchingProductsAnyPrice(category) ==
    Where(products, {r \in DOMAIN products : /\ r.category = category
                                              /\ r.is_active})

MatchingProducts(category) ==
    Where(products, {r \in DOMAIN products : /\ r.category = category
                                              /\ r.is_active
                                              /\ r.price > 0})

ProductStatsQuery(category) ==
    LET m == MatchingProducts(category)
    IN  [total_products |-> Count(m),
         avg_price      |-> AvgPrice(m),
         min_price      |-> MinPrice(m),
         max_price      |-> MaxPriceOf(m)]

RfqCountQuery(category, thirty_days_ago) ==
    Count(Where(rfqs, {r \in DOMAIN rfqs : /\ r.category = category
                                            /\ r.created_at >= thirty_days_ago}))

SupplierProducts(category) ==
    Where(products, {r \in DOMAIN products : /\ r.category = category
                                              /\ r.is_active})

SupplierCountQuery(category) ==
    Cardinality({r.supplier_id : r \in DOMAIN SupplierProducts(category)})

----------------------------------------------------------------------------
(* The report of market_analysis *)

\* x or 0
OrZero(o) == IF o = NULL \/ Get(o)[1] = 0 THEN <<0, 1>> ELSE Get(o)

\* round(float(f), 2), in hundredths: to the nearest, a tie to the even one
Round2(f) ==
    LET n == Decimals * f[1]
        q == n \div f[2]
        r == n % f[2]
    IN  IF 2 * r < f[2] THEN q
        ELSE IF 2 * r > f[2] THEN q + 1
        ELSE IF q % 2 = 0 THEN q ELSE q + 1

\* the prices of a report without `or 0`
ReportedPriceNullable(o) == IF o = NULL THEN NULL ELSE Some(Round2(Get(o)))

ReportedPrice(o) == Some(Round2(OrZero(o)))

\* the demand thresholds with >= for >
DemandLevelInclusive(rfq_count) ==
    IF rfq_count >= DemandHigh THEN "high"
    ELSE IF rfq_count >= DemandMedium THEN "medium"
    ELSE "low"

DemandLevel(rfq_count) ==
    IF rfq_count > DemandHigh THEN "high"
    ELSE IF rfq_count > DemandMedium THEN "medium"
    ELSE "low"

\* the competition thresholds with >= for >
CompetitionLevelInclusive(supplier_count) ==
    IF supplier_count >= CompetitionHigh THEN "high"
    ELSE IF supplier_count >= CompetitionMedium THEN "medium"
    ELSE "low"

CompetitionLevel(supplier_count) ==
    IF supplier_count > CompetitionHigh THEN "high"
    ELSE IF supplier_count > CompetitionMedium THEN "medium"
    ELSE "low"

\* `total_products and (...)`: the division is evaluated only for a non-zero count
Divides(stats) == stats.total_products # 0

\* the division raises ZeroDivisionError
ZeroDivision(stats) == Divides(stats) /\ Get(stats.avg_price)[1] = 0

\* the stability threshold with <= for <
SpreadAtMostThreshold(stats) ==
    LET spread == Get(stats.max_price)[1] - Get(stats.min_price)[1]
        avg    == Get(stats.avg_price)
    IN  IF avg[1] > 0
        THEN spread * avg[2] * StabilityDen <= StabilityNum * avg[1]
        ELSE spread * avg[2] * StabilityDen >= StabilityNum * avg[1]

\* (max_price - min_price) / avg_price < 0.5, for a non-zero avg_price
SpreadBelowThreshold(stats) ==
    LET spread == Get(stats.max_price)[1] - Get(stats.min_price)[1]
        avg    == Get(stats.avg_price)
    IN  IF avg[1] > 0
        THEN spread * avg[2] * StabilityDen < StabilityNum * avg[1]
        ELSE spread * avg[2] * StabilityDen > StabilityNum * avg[1]

PriceStability(stats) ==
    IF Divides(stats) /\ SpreadBelowThreshold(stats) THEN "stable" ELSE "volatile"

MarketReport(category, stats, rfq_count, supplier_count) ==
    [category |-> category,
     market_overview |->
        [total_products   |-> stats.total_products,
         avg_price        |-> ReportedPrice(stats.avg_price),
         min_price        |-> ReportedPrice(stats.min_price),
         max_price        |-> ReportedPrice(stats.max_price),
         active_suppliers |-> supplier_count],
     demand_indicators |->
        [rfqs_last_30_days |-> rfq_count,
         demand_level      |-> DemandLevel(rfq_count)],
     market_health |->
        [competition_level |-> CompetitionLevel(supplier_count),
         price_stability   |-> PriceStability(stats)]]

----------------------------------------------------------------------------
(* Requests and responses *)

Queries == <<"product", "rfq", "supplier">>

\* every way the data store can fail the three queries of one call
FaultSets == SUBSET {Queries[i] : i \in 1..Len(Queries)}

Optional(S) == {NULL} \cup {Some(x) : x \in S}

Blank ==
    [handler  |-> "none",
     status   |-> "none",   \* "ok", "rejected" (422) or "error" (500)
     category |-> NULL,     \* the category parameter of the request
     quantity |-> NULL,     \* the quantity parameter of the request
     faults   |-> {},       \* the queries the data store fails in this call
     queries  |-> <<>>,     \* the queries the handler executed, in order
     engine   |-> FALSE,    \* get_ai_price_suggestion was called
     at       |-> NULL,     \* datetime.utcnow() as the handler read it
     stats    |-> NULL,     \* the row of the product statistics query
     divided  |-> FALSE,    \* the division by avg_price was evaluated
     body     |-> NULL]

\* Query(...): a required parameter
CategoryAccepted(category) == category # NULL

\* Query(1, ge=0)
QuantityAcceptedFromZero(quantity) == quantity = NULL \/ Get(quantity) >= 0

\* Query(1, ge=1)
QuantityAccepted(quantity) == quantity = NULL \/ Get(quantity) >= MinQuantity

\* a failed query swallowed: the handler answers all the same
Swallowed(resp, executed) ==
    [resp EXCEPT !.status = "ok", !.queries = SubSeq(Queries, 1, executed)]

Raised(resp, executed) ==
    [resp EXCEPT !.status = "error", !.queries = SubSeq(Queries, 1, executed)]

market_analysis(category, faults) ==
    LET bad == [Blank EXCEPT !.handler = "market_analysis",
                             !.category = category]
        req == [bad EXCEPT !.faults = faults]
    IN  IF ~CategoryAccepted(category) THEN [bad EXCEPT !.status = "rejected"]
        ELSE IF "product" \in faults THEN Raised(req, 1)
        ELSE LET product_stats   == ProductStatsQuery(Get(category))
                 thirty_days_ago == now - WindowDays
                 timed == [req EXCEPT !.stats = Some(product_stats),
                                      !.at = Some(now)]
             IN  IF "rfq" \in faults THEN Raised(timed, 2)
                 ELSE IF "supplier" \in faults THEN Raised(timed, 3)
                 ELSE LET rfq_count      == RfqCountQuery(Get(category), thirty_days_ago)
                          supplier_count == SupplierCountQuery(Get(category))
                          done == [timed EXCEPT !.divided = Divides(product_stats)]
                      IN  IF ZeroDivision(product_stats) THEN Raised(done, 3)
                          ELSE [done EXCEPT
                                  !.status = "ok",
                                  !.queries = Queries,
                                  !.body = Some(MarketReport(Get(category), product_stats,
                                                             rfq_count, supplier_count))]

\* market_analysis recording each lookup in the RFQ table
MarketAnalysisRecording ==
    \E category \in Optional(RequestCategories), faults \in FaultSets :
        /\ response' = market_analysis(category, faults)
        /\ report' = IF response'.status = "ok" THEN response' ELSE report
        /\ rfqs' = IF response'.status = "ok"
                   THEN rfqs (+) SetToBag({[category |-> Get(category), created_at |-> now]})
                   ELSE rfqs
        /\ UNCHANGED <<products, now>>

MarketAnalysis ==
    \E category \in Optional(RequestCategories), faults \in FaultSets :
        /\ response' = market_analysis(category, faults)
        /\ report' = IF response'.status = "ok" THEN response' ELSE report
        /\ UNCHANGED <<products, rfqs, now>>

\* the request is validated, then handed to get_ai_price_suggestion, whose result
\* is returned as it is
ai_price_suggestion(category, quantity) ==
    LET req == [Blank EXCEPT !.handler = "ai_price_suggestion",
                             !.category = category,
                             !.quantity = quantity]
    IN  IF ~CategoryAccepted(category) \/ ~QuantityAccepted(quantity)
        THEN [req EXCEPT !.status = "rejected"]
        ELSE [req EXCEPT !.status = "ok",
                         !.engine = TRUE,
                         !.body = Some([category |-> Get(category),
                                        quantity |-> IF quantity = NULL
                                                     THEN DefaultQuantity
                                                     ELSE Get(quantity)])]

AiPriceSuggestion ==
    \E category \in Optional(RequestCategories), quantity \in Optional(0..MaxQuantity) :
        /\ response' = ai_price_suggestion(category, quantity)
        /\ UNCHANGED <<products, rfqs, now, report>>

\* WHERE is_active GROUP BY category, count(id)
CategoryGroups ==
    LET active == Where(products, {r \in DOMAIN products : r.is_active})
    IN  {[name |-> c,
          product_count |-> Count(Where(active, {r \in DOMAIN active : r.category = c}))] :
            c \in {r.category : r \in DOMAIN active}}

\* the groups in any order
Unordered(groups) ==
    {s \in [1..Cardinality(groups) -> groups] :
        \A i, j \in DOMAIN s : i # j => s[i] # s[j]}

\* ORDER BY count(id) DESC: every order of the groups the clause allows
Ordered(groups) ==
    {s \in [1..Cardinality(groups) -> groups] :
        /\ \A i, j \in DOMAIN s : i # j => s[i] # s[j]
        /\ \A i, j \in DOMAIN s : i < j => s[i].product_count >= s[j].product_count}

get_categories(fault, rows) ==
    LET req == [Blank EXCEPT !.handler = "get_categories",
                             !.faults = IF fault THEN {"categories"} ELSE {}]
    IN  IF fault THEN [req EXCEPT !.status = "error", !.queries = <<"categories">>]
        ELSE [req EXCEPT !.status = "ok",
                         !.queries = <<"categories">>,
                         !.body = Some(rows)]

GetCategories ==
    \E fault \in BOOLEAN, rows \in Ordered(CategoryGroups) :
        /\ response' = get_categories(fault, rows)
        /\ UNCHANGED <<products, rfqs, now, report>>

\* time passes between two requests
Tick ==
    /\ now < WindowDays + MaxTicks
    /\ now' = now + 1
    /\ UNCHANGED <<products, rfqs, response, report>>

Next == MarketAnalysis \/ AiPriceSuggestion \/ GetCategories \/ Tick

----------------------------------------------------------------------------
(* Data sets *)

ProductRow(category, is_active, price, supplier_id) ==
    [category |-> category, is_active |-> is_active,
     price |-> price, supplier_id |-> supplier_id]

RfqRow(category, created_at) ==
    [category |-> category, created_at |-> created_at]

Started ==
    /\ now = WindowDays
    /\ response = Blank
    /\ report = Blank

\* small tables of every shape
GeneralProducts ==
    TablesOf({ProductRow(c, a, MaxPrice, 1) :
                c \in ProductCategories, a \in BOOLEAN},
             MaxProducts)

GeneralRfqs ==
    {EmptyBag} \cup {SetToBag({RfqRow("a", d)}) : d \in {0, LastDay}}

Init ==
    /\ products \in GeneralProducts
    /\ rfqs \in GeneralRfqs
    /\ Started

Spec == Init /\ [][Next]_vars

\* listings of one category at every price
PricedProducts ==
    TablesOf({ProductRow("a", TRUE, p, 1) : p \in 0..MaxPrice}
                \cup {ProductRow("a", FALSE, MaxPrice, 1)},
             MaxPricedRows)

InitPrice ==
    /\ products \in PricedProducts
    /\ rfqs = EmptyBag
    /\ Started

SpecPrice == InitPrice /\ [][Next]_vars

\* RFQ tables of up to MaxRfqRows rows on the first day and on the last
DemandRfqs ==
    {[r \in {RfqRow("a", 0), RfqRow("a", LastDay), RfqRow("b", LastDay)} |->
        IF r.category = "b" THEN 1 ELSE IF r.created_at = 0 THEN old ELSE recent] :
        old \in 1..MaxRfqRows, recent \in 1..MaxRfqRows}

InitDemand ==
    /\ products = EmptyBag
    /\ rfqs \in DemandRfqs
    /\ Started

SpecDemand == InitDemand /\ [][Next]_vars

\* n suppliers with one active listing each in category "a", the first of them
\* priced at zero when z = 1; with `more`, a second listing of the first supplier, an
\* inactive listing and a listing in category "b" of three further suppliers
SupplyProducts ==
    {SetToBag({ProductRow("a", TRUE, IF i <= z THEN 0 ELSE 1, i) : i \in 1..n}
              \cup (IF more
                    THEN {ProductRow("a", TRUE, MaxPrice, 1),
                          ProductRow("a", FALSE, 1, n + 1),
                          ProductRow("b", TRUE, 1, n + 2)}
                    ELSE {})) :
        n \in 0..MaxSupplyRows, z \in 0..1, more \in BOOLEAN}

InitSupply ==
    /\ products \in SupplyProducts
    /\ rfqs = EmptyBag
    /\ Started

SpecSupply == InitSupply /\ [][Next]_vars

----------------------------------------------------------------------------
(* What the claims speak of *)

IsReport(r) == r.handler = "market_analysis" /\ r.status = "ok"

Overview == Get(response.body).market_overview
Demand == Get(response.body).demand_indicators
Health == Get(response.body).market_health

\* the rows of a table one by one: a row of multiplicity k is k listings
Listings(table) == UNION {{<<r, i>> : i \in 1..table[r]} : r \in DOMAIN table}

\* the active, positively-priced listings of a category
Comparables(category) ==
    {l \in Listings(products) : /\ l[1].category = category
                                /\ l[1].is_active
                                /\ l[1].price > 0}

RECURSIVE PriceTotal(_, _)
PriceTotal(listings, p) ==
    IF p = 0 THEN 0
    ELSE p * Cardinality({l \in listings : l[1].price = p}) + PriceTotal(listings, p - 1)

\* the RFQs of a category created at or after a day
RfqsSince(category, day) ==
    {l \in Listings(rfqs) : l[1].category = category /\ l[1].created_at >= day}

----------------------------------------------------------------------------
\* C1: the demand_level of a report is "high" exactly when the RFQs counted in the
\* 30 days before the evaluation are more than 30, "medium" exactly when they are
\* more than 10 and at most 30, and "low" otherwise; the count is the number of RFQ
\* rows of the category created in that window.
C1_DemandLevel ==
    IsReport(response) =>
        LET n == Demand.rfqs_last_30_days
            level == Demand.demand_level
        IN  /\ n = Cardinality(RfqsSince(Get(response.category), Get(response.at) - 30))
            /\ level \in {"high", "medium", "low"}
            /\ level = "high" <=> n > 30
            /\ level = "medium" <=> (n > 10 /\ n <= 30)
            /\ n = 30 => level = "medium"
            /\ n = 31 => level = "high"
            /\ n = 10 => level = "low"
            /\ n = 11 => level = "medium"

C1_Witness ==
    /\ IsReport(response)
    /\ Demand.rfqs_last_30_days = 30
    /\ Demand.demand_level = "medium"

\* C2: the competition_level of a report is "high" exactly when the reported
\* supplier count is more than 10, "medium" exactly when it is more than 3 and at
\* most 10, and "low" otherwise.
C2_CompetitionLevel ==
    IsReport(response) =>
        LET n == Overview.active_suppliers
            level == Health.competition_level
        IN  /\ level \in {"high", "medium", "low"}
            /\ level = "high" <=> n > 10
            /\ level = "medium" <=> (n > 3 /\ n <= 10)
            /\ n = 10 => level = "medium"
            /\ n = 11 => level = "high"

C2_Witness ==
    /\ IsReport(response)
    /\ Overview.active_suppliers = 11
    /\ Health.competition_level = "high"

\* C3: a report says "stable" exactly when the category has an active,
\* positively-priced listing and (max - min) / mean over those listings is below
\* one half; otherwise, and with no such listing, it says "volatile".
C3_PriceStability ==
    IsReport(response) =>
        LET listings == Comparables(Get(response.category))
            n == Cardinality(listings)
            prices == {l[1].price : l \in listings}
            hi == CHOOSE p \in prices : \A q \in prices : p >= q
            lo == CHOOSE p \in prices : \A q \in prices : p <= q
        IN  /\ Health.price_stability \in {"stable", "volatile"}
            /\ Health.price_stability = "stable" <=>
                  (n >= 1 /\ 2 * (hi - lo) * n < PriceTotal(listings, MaxPrice))

C3_Witness ==
    /\ IsReport(response)
    /\ Health.price_stability = "stable"
    /\ Overview.min_price # Overview.max_price

\* C4: the active_suppliers of a report is the number of distinct suppliers with
\* an active, positively-priced listing in the category.
C4_PricedSuppliers ==
    IsReport(response) =>
        Overview.active_suppliers =
            Cardinality({l[1].supplier_id : l \in Comparables(Get(response.category))})

\* C5, as claimed: with no active, positively-priced listing, the avg_price,
\* min_price and max_price of a report are absent, never the number 0.
C5_AbsentPrices ==
    (IsReport(response) /\ Overview.total_products = 0) =>
        /\ Overview.avg_price = NULL
        /\ Overview.min_price = NULL
        /\ Overview.max_price = NULL

\* C5, as amended: with no active, positively-priced listing the three aggregates
\* of the query are NULL, and the report carries the number 0 for each of them.
C5_ZeroPrices ==
    (IsReport(response) /\ Comparables(Get(response.category)) = {}) =>
        /\ Overview.total_products = 0
        /\ Get(response.stats).avg_price = NULL
        /\ Get(response.stats).min_price = NULL
        /\ Get(response.stats).max_price = NULL
        /\ Overview.avg_price = Some(0)
        /\ Overview.min_price = Some(0)
        /\ Overview.max_price = Some(0)

C5_Witness ==
    /\ IsReport(response)
    /\ products # EmptyBag
    /\ Overview.total_products = 0
    /\ Overview.avg_price = Some(0)

\* C6: get_categories returns one entry per category with an active listing, each
\* with the number of active listings of its category, and product_count never
\* increases from one entry to the next.
C6_Categories ==
    (response.handler = "get_categories" /\ response.status = "ok") =>
        LET rows == Get(response.body)
            active == {l \in Listings(products) : l[1].is_active}
        IN  /\ \A i, j \in DOMAIN rows : i # j => rows[i].name # rows[j].name
            /\ {rows[i].name : i \in DOMAIN rows} = {l[1].category : l \in active}
            /\ \A i \in DOMAIN rows :
                  rows[i].product_count =
                      Cardinality({l \in active : l[1].category = rows[i].name})
            /\ \A i \in DOMAIN rows :
                  i + 1 \in DOMAIN rows => rows[i].product_count >= rows[i + 1].product_count

C6_Witness ==
    /\ response.handler = "get_categories"
    /\ response.status = "ok"
    /\ Len(Get(response.body)) = 2
    /\ Get(response.body)[1].product_count > Get(response.body)[2].product_count

\* a request of ai_price_suggestion or market_analysis
IsRequest == response.handler \in {"ai_price_suggestion", "market_analysis"}

QuantityBelowOne == response.quantity # NULL /\ Get(response.quantity) < 1

RejectedUnserved ==
    /\ response.status = "rejected"
    /\ response.queries = <<>>
    /\ ~response.engine

\* C7, as claimed: a request with the category missing or empty, or a quantity
\* below 1, is rejected before any query runs or the suggestion engine is called.
C7_RejectsEmptyCategory ==
    (IsRequest /\ (response.category \in {NULL, Some("")} \/ QuantityBelowOne)) =>
        RejectedUnserved

\* C7, as amended: a request with the category missing, or a quantity below 1, is
\* rejected before any query runs or the suggestion engine is called; a request
\* whose category is the empty string, its quantity not below 1, is served.
C7_RejectsMissing ==
    IsRequest =>
        /\ (response.category = NULL \/ QuantityBelowOne) => RejectedUnserved
        /\ (response.category = Some("") /\ ~QuantityBelowOne) =>
              /\ response.status # "rejected"
              /\ response.queries # <<>> \/ response.engine

C7_Witness ==
    /\ response.handler = "ai_price_suggestion"
    /\ response.category = Some("a")
    /\ response.quantity = Some(0)
    /\ RejectedUnserved

\* C8, as claimed: with exactly one of the three queries failing, market_analysis
\* still returns a report, a failed RFQ count reported as 0 and "low"; the call
\* fails only when all three fail.
C8_DegradedReport ==
    (response.handler = "market_analysis" /\ response.category # NULL) =>
        /\ Cardinality(response.faults) = 1 =>
              /\ response.status = "ok"
              /\ response.body # NULL
              /\ "rfq" \in response.faults =>
                    /\ Demand.rfqs_last_30_days = 0
                    /\ Demand.demand_level = "low"
        /\ response.status = "error" => Cardinality(response.faults) = 3

\* C8, as amended: market_analysis returns a report exactly when none of the three
\* queries fails; when one fails the call fails with no report, having executed
\* the queries up to the first failing one and none after it.
C8_FailsOnAnyFault ==
    (response.handler = "market_analysis" /\ response.category # NULL) =>
        /\ response.status = "ok" <=> response.faults = {}
        /\ response.faults # {} =>
              /\ response.status = "error"
              /\ response.body = NULL
              /\ Len(response.queries) >= 1
              /\ response.queries = SubSeq(Queries, 1, Len(response.queries))
              /\ response.queries[Len(response.queries)] \in response.faults
              /\ \A i \in 1..(Len(response.queries) - 1) :
                    response.queries[i] \notin response.faults

C8_Witness ==
    /\ response.handler = "market_analysis"
    /\ response.faults = {"rfq"}
    /\ response.status = "error"
    /\ response.queries = <<"product", "rfq">>

\* C9, as claimed: two reports of market_analysis for the same category over the
\* same data are identical, whatever ran in between and whenever they are
\* evaluated.
C9_SameReportAnyTime ==
    [][(IsReport(report) /\ IsReport(report') /\ report'.category = report.category)
          => report'.body = report.body]_vars

\* C9, as amended: no handler writes to the data store, and two reports of
\* market_analysis for the same category over the same data, whatever ran in
\* between, agree on market_overview and market_health, and are identical when
\* the same RFQs of the category fall in the 30 days before either evaluation,
\* as they do when both are evaluated at the same time.
C9_SameReportSameWindow ==
    [][/\ products' = products
       /\ rfqs' = rfqs
       /\ (IsReport(report) /\ IsReport(report') /\ report'.category = report.category)
            => /\ Get(report'.body).market_overview = Get(report.body).market_overview
               /\ Get(report'.body).market_health = Get(report.body).market_health
               /\ report'.at = report.at => report'.body = report.body
               /\ (RfqsSince(Get(report.category), Get(report'.at) - 30)
                      = RfqsSince(Get(report.category), Get(report.at) - 30))
                    => report'.body = report.body]_vars

C9_Witness ==
    /\ IsReport(report)
    /\ rfqs # EmptyBag
    /\ response.handler = "get_categories"
    /\ now > Get(report.at)

\* C10: whenever market_analysis evaluates the division by the mean price, the
\* aggregate holds at least one listing and the mean is not zero; with a count
\* of zero the division is not evaluated.
C10_NoDivisionByZero ==
    (response.handler = "market_analysis" /\ response.stats # NULL) =>
        LET stats == Get(response.stats)
        IN  /\ response.divided =>
                  /\ stats.total_products >= 1
                  /\ Comparables(Get(response.category)) # {}
                  /\ stats.avg_price # NULL
                  /\ Get(stats.avg_price)[1] # 0
            /\ stats.total_products = 0 => ~response.divided
            /\ response.faults = {} => response.status = "ok"

C10_Witness ==
    /\ IsReport(response)
    /\ response.divided
    /\ Get(response.stats).total_products = 2

====
